---- MODULE Spec2Model ----
(***************************************************************************)
(* Model of the portfolio optimisation engine (backend/optimizer.py) and   *)
(* of the request handlers that call it (backend/api.py).                  *)
(*                                                                         *)
(* Numbers.  A float is a record [nan, v]: either NaN or an integer v.     *)
(* Weights are held in ticks, 1.0 = Unit ticks.  Daily returns are held in *)
(* halves (the price series below only take the prices 1 and 2, so every   *)
(* fractional change is a multiple of 1/2); expected returns are therefore *)
(* in halves and covariances in quarters, both annualised by TradingDays   *)
(* exactly as in the source.                                               *)
(***************************************************************************)
EXTENDS Integers, Sequences, FiniteSets, TLC

\* ---------------------------------------------------------------- bounds
MaxAssets == 2
MaxRows == 3
MaxPoints == 2
Unit == 2

\* ------------------------------------------------------ program constants
TradingDays == 252
MaxIter == 1000
\* SLSQP's default accuracy (scipy's ftol, 1e-6): one tick of the model.
Acc == 1

\* ---------------------------------------------------------------- floats
F(v) == [nan |-> FALSE, v |-> v]
NaN == [nan |-> TRUE, v |-> 0]

FAdd(a, b) == IF a.nan \/ b.nan THEN NaN ELSE F(a.v + b.v)
FSub(a, b) == IF a.nan \/ b.nan THEN NaN ELSE F(a.v - b.v)
FMul(a, b) == IF a.nan \/ b.nan THEN NaN ELSE F(a.v * b.v)
\* a / b for b > 0, rounded down to the model's resolution
FDiv(a, b) == IF a.nan \/ b.nan THEN NaN ELSE F(a.v \div b.v)
\* every comparison with NaN is False
FLt(a, b) == ~a.nan /\ ~b.nan /\ a.v < b.v
FLe(a, b) == ~a.nan /\ ~b.nan /\ a.v <= b.v
FGt(a, b) == ~a.nan /\ ~b.nan /\ a.v > b.v

RECURSIVE ISqrtBetween(_, _, _)
ISqrtBetween(n, lo, hi) ==
    IF lo >= hi THEN lo
    ELSE LET mid == (lo + hi + 1) \div 2
         IN IF mid * mid <= n THEN ISqrtBetween(n, mid, hi)
            ELSE ISqrtBetween(n, lo, mid - 1)

\* np.sqrt: NaN for a negative or NaN argument (no exception, a warning only)
FSqrt(a) == IF a.nan \/ a.v < 0 THEN NaN ELSE F(ISqrtBetween(a.v, 0, a.v))

RECURSIVE FSum(_)
FSum(s) == IF s = <<>> THEN F(0) ELSE FAdd(Head(s), FSum(Tail(s)))

RECURSIVE ISum(_)
ISum(s) == IF s = <<>> THEN 0 ELSE Head(s) + ISum(Tail(s))

Abs(i) == IF i < 0 THEN -i ELSE i

\* a weight of w ticks as the float factor it is: w/Unit, applied to a
IScale(w, a) == FMul(F(w), a)

\* ----------------------------------------------------------- price tables
TickerNames == <<"AAPL", "MSFT", "GOOGL", "AMZN">>

\* the price series a column can hold, by row number
SeriesNames == {"flat", "rise", "fall"}
Price(series, t) ==
    CASE series = "flat" -> 1
      [] series = "rise" -> IF t % 2 = 1 THEN 1 ELSE 2
      [] series = "fall" -> IF t % 2 = 1 THEN 2 ELSE 1

\* a DataFrame: its column labels and its rows of prices
DataFrame(series, nrows) ==
    [columns |-> SubSeq(TickerNames, 1, Len(series)),
     rows |-> [t \in 1..nrows |-> [j \in 1..Len(series) |-> Price(series[j], t)]]]

EmptyDataFrame == [columns |-> <<>>, rows |-> <<>>]

PriceTables ==
    {EmptyDataFrame} \cup
    UNION {{DataFrame(s, r) : s \in [1..n -> SeriesNames], r \in 0..MaxRows} : n \in 1..MaxAssets}

\* --------------------------------------------------- statistics estimator
\* price_data.pct_change().dropna(): one row per pair of consecutive prices
pct_change(price_data) ==
    LET rows == price_data.rows
        n == Len(price_data.columns)
        m == IF Len(rows) = 0 THEN 0 ELSE Len(rows) - 1
    IN [t \in 1..m |-> [j \in 1..n |-> ((rows[t + 1][j] - rows[t][j]) * 2) \div rows[t][j]]]

Column(daily_returns, j) == [t \in 1..Len(daily_returns) |-> daily_returns[t][j]]

\* daily_returns.mean() * 252: NaN for a column with no observation
AnnualMean(daily_returns, j) ==
    LET m == Len(daily_returns)
    IN IF m = 0 THEN NaN
       ELSE F((ISum(Column(daily_returns, j)) * TradingDays) \div m)

\* daily_returns.cov() * 252: the sample covariance (ddof = 1), NaN with
\* fewer than two observations
AnnualCov(daily_returns, i, j) ==
    LET m == Len(daily_returns)
        ci == Column(daily_returns, i)
        cj == Column(daily_returns, j)
        sij == ISum([t \in 1..m |-> ci[t] * cj[t]])
    IN IF m < 2 THEN NaN
       ELSE F(((m * sij - ISum(ci) * ISum(cj)) * TradingDays) \div (m * (m - 1)))

\* price_data.pct_change() and .dropna() each build a new frame, bound to
\* daily_returns; the caller's table keeps its rows
\* (variant: the rows without an earlier row dropped from the table itself)
price_data_afterInPlace(price_data) ==
    [columns |-> price_data.columns,
     rows |-> IF price_data.rows = <<>> THEN <<>> ELSE Tail(price_data.rows)]
price_data_after(price_data) == price_data

calculate_returns_and_covariance(price_data) ==
    LET daily_returns == pct_change(price_data)
        n == Len(price_data.columns)
    IN [expected_returns |-> [j \in 1..n |-> AnnualMean(daily_returns, j)],
        covariance_matrix |-> [i \in 1..n |-> [j \in 1..n |-> AnnualCov(daily_returns, i, j)]]]

\* -------------------------------------------------- performance evaluator
\* np.dot(weights, v), weights in ticks
Dot(weights, v) ==
    FDiv(FSum([j \in 1..Len(weights) |-> IScale(weights[j], v[j])]), F(Unit))

\* np.dot(weights.T, np.dot(covariance_matrix, weights))
QuadForm(weights, covariance_matrix) ==
    LET n == Len(weights)
        cw == [i \in 1..n |-> FSum([j \in 1..n |-> IScale(weights[j], covariance_matrix[i][j])])]
    IN FDiv(FSum([i \in 1..n |-> IScale(weights[i], cw[i])]), F(Unit * Unit))

\* (variant: the quotient taken whatever the volatility is; a division by a
\* zero volatility gives no number)
portfolio_performanceUnguarded(rf, weights, expected_returns, covariance_matrix) ==
    LET portfolio_return == Dot(weights, expected_returns)
        portfolio_variance == QuadForm(weights, covariance_matrix)
        portfolio_volatility == FSqrt(portfolio_variance)
        sharpe_ratio == IF FGt(portfolio_volatility, F(0))
                        THEN FDiv(FSub(portfolio_return, F(rf)), portfolio_volatility)
                        ELSE NaN
    IN [ret |-> portfolio_return, risk |-> portfolio_volatility, sharpe |-> sharpe_ratio]
portfolio_performance(rf, weights, expected_returns, covariance_matrix) ==
    LET portfolio_return == Dot(weights, expected_returns)
        portfolio_variance == QuadForm(weights, covariance_matrix)
        portfolio_volatility == FSqrt(portfolio_variance)
        sharpe_ratio == IF FGt(portfolio_volatility, F(0))
                        THEN FDiv(FSub(portfolio_return, F(rf)), portfolio_volatility)
                        ELSE F(0)
    IN [ret |-> portfolio_return, risk |-> portfolio_volatility, sharpe |-> sharpe_ratio]

\* ------------------------------------------------------ numerical solver
\* The arguments of one scipy.optimize.minimize call.  An objective or a
\* constraint function is recorded by what it computes and by the values its
\* closure captured.
SumConstraint ==
    [type |-> "eq", fun |-> "sum_minus_1", expected_returns |-> <<>>, target_return |-> F(0)]

TargetConstraint(expected_returns, target_return) ==
    [type |-> "eq", fun |-> "dot_minus_target",
     expected_returns |-> expected_returns, target_return |-> target_return]

\* bounds = tuple((0, 1) for _ in range(n_assets)), in ticks
\* (variant: bounds that allow short positions)
WeightBoundsShort(n_assets) == [i \in 1..n_assets |-> <<-Unit, Unit>>]
WeightBounds(n_assets) == [i \in 1..n_assets |-> <<0, Unit>>]

\* np.array([1.0 / n_assets] * n_assets), in ticks
InitialWeights(n_assets) == [i \in 1..n_assets |-> Unit \div n_assets]

\* the objective closures: what they compute, and the values they captured
VarianceObjective(covariance_matrix) ==
    [fun |-> "variance", risk_free_rate |-> 0, expected_returns |-> <<>>,
     covariance_matrix |-> covariance_matrix]

NegSharpeObjective(rf, expected_returns, covariance_matrix) ==
    [fun |-> "neg_sharpe", risk_free_rate |-> rf, expected_returns |-> expected_returns,
     covariance_matrix |-> covariance_matrix]

ObjectiveValue(f, x) ==
    IF f.fun = "variance" THEN QuadForm(x, f.covariance_matrix)
    ELSE FSub(F(0), portfolio_performance(f.risk_free_rate, x, f.expected_returns,
                                          f.covariance_matrix).sharpe)

ConstraintValue(c, x) ==
    IF c.fun = "sum_minus_1" THEN F(ISum(x) - Unit)
    ELSE FSub(Dot(x, c.expected_returns), c.target_return)

\* the iterates SLSQP can stop at: it keeps every iterate inside the bounds
Iterates(problem) ==
    [1..Len(problem.x0) -> problem.bounds[1][1]..problem.bounds[1][2]]

\* SLSQP reports success only at a point inside the bounds that meets every
\* equality constraint within Acc (a NaN constraint value is never within it)
\* and where the objective is a number (its convergence test fails on NaN)
Feasible(problem, x) ==
    /\ ~ObjectiveValue(problem.objective, x).nan
    /\ \A i \in 1..Len(x) :
          problem.bounds[i][1] <= x[i] /\ x[i] <= problem.bounds[i][2]
    /\ \A c \in 1..Len(problem.constraints) :
          LET cv == ConstraintValue(problem.constraints[c], x)
          IN ~cv.nan /\ Abs(cv.v) <= Acc

SolverExceptions == {"LinAlgError", "ValueError"}

NotCalled == [raised |-> FALSE, exc |-> "none", success |-> FALSE, x |-> <<>>, message |-> "none"]

\* Every way one minimize(...) call can end: it raises, it stops without
\* converging (any iterate), or it converges (a feasible iterate).  Which
\* point it finds is the library's business and is left open.
minimize(problem) ==
    {[raised |-> TRUE, exc |-> e, success |-> FALSE, x |-> <<>>, message |-> "none"] :
        e \in SolverExceptions}
    \cup
    {[raised |-> FALSE, exc |-> "none", success |-> FALSE, x |-> x,
      message |-> "Iteration limit reached"] : x \in Iterates(problem)}
    \cup
    {[raised |-> FALSE, exc |-> "none", success |-> TRUE, x |-> x,
      message |-> "Optimization terminated successfully"] :
        x \in {y \in Iterates(problem) : Feasible(problem, y)}}

Outcome(r) == IF r.raised THEN "raised" ELSE IF r.success THEN "success" ELSE "failed"

\* one entry of the record of minimize(...) calls: the arguments, and what the
\* call did
Call(problem, r) ==
    [problem |-> problem, outcome |-> Outcome(r), x |-> r.x, message |-> r.message,
     exc |-> r.exc]

\* ------------------------------------------------------ optimize_portfolio
\* the method names a caller may pass
Methods == {"min_variance", "max_sharpe", "bogus"}

\* the branches of the method dispatch (lines 98-112)
\* (variant: a dispatch whose last branch takes any other name)
KnownMethodsAnyName == Methods
KnownMethods == {"min_variance", "max_sharpe"}

\* the objective closure chosen by the dispatch
ObjectiveOf(rf, method, stats) ==
    IF method = "min_variance" THEN VarianceObjective(stats.covariance_matrix)
    ELSE NegSharpeObjective(rf, stats.expected_returns, stats.covariance_matrix)

\* the minimize(...) call of optimize_portfolio
OptimizeProblem(rf, price_data, method) ==
    LET n_assets == Len(price_data.columns)
        stats == calculate_returns_and_covariance(price_data)
    IN [objective |-> ObjectiveOf(rf, method, stats),
        x0 |-> InitialWeights(n_assets),
        method |-> "SLSQP",
        bounds |-> WeightBounds(n_assets),
        constraints |-> <<SumConstraint>>,
        maxiter |-> MaxIter]

\* whether the call gets as far as minimize(...)
OptimizeReachesSolver(price_data, method) ==
    Len(price_data.columns) > 0 /\ method \in KnownMethods

Err(type, message, cause) == [type |-> type, message |-> message, cause |-> cause]

\* {ticker: float(weight) for ticker, weight in zip(tickers, optimal_weights)}
\* (variant: the weights paired with the tickers from the other end)
WeightsDictReversed(tickers, optimal_weights) ==
    LET k == IF Len(tickers) < Len(optimal_weights) THEN Len(tickers) ELSE Len(optimal_weights)
    IN [tk \in {tickers[i] : i \in 1..k} |->
          optimal_weights[k + 1 - (CHOOSE i \in 1..k :
              tickers[i] = tk /\ \A j \in (i + 1)..k : tickers[j] # tk)]]
WeightsDict(tickers, optimal_weights) ==
    LET k == IF Len(tickers) < Len(optimal_weights) THEN Len(tickers) ELSE Len(optimal_weights)
    IN [tk \in {tickers[i] : i \in 1..k} |->
          optimal_weights[CHOOSE i \in 1..k :
              tickers[i] = tk /\ \A j \in (i + 1)..k : tickers[j] # tk]]

\* the except clause of optimize_portfolio
\* (variant: the cause left out of the new error)
WrapSolverErrorNoCause(exc) == Err("ValueError", "Portfolio optimization failed", "none")
WrapSolverError(exc) == Err("ValueError", "Portfolio optimization failed", exc)

\* the dictionary built from a solver result
\* (variant: the fallback message used unconditionally)
OptimizeResultFixedMessage(rf, price_data, stats, r) ==
    LET perf == portfolio_performance(rf, r.x, stats.expected_returns, stats.covariance_matrix)
    IN [weights |-> WeightsDict(price_data.columns, r.x),
        exp_return |-> perf.ret,
        exp_risk |-> perf.risk,
        sharpe |-> perf.sharpe,
        success |-> r.success,
        message |-> "Optimization completed"]
OptimizeResult(rf, price_data, stats, r) ==
    LET perf == portfolio_performance(rf, r.x, stats.expected_returns, stats.covariance_matrix)
    IN [weights |-> WeightsDict(price_data.columns, r.x),
        exp_return |-> perf.ret,
        exp_risk |-> perf.risk,
        sharpe |-> perf.sharpe,
        success |-> r.success,
        message |-> r.message]

\* optimize_portfolio(price_data, method), r being what minimize did when
\* it was called
optimize_portfolio(rf, price_data, method, r) ==
    LET n_assets == Len(price_data.columns)
        stats == calculate_returns_and_covariance(price_data)
        problem == OptimizeProblem(rf, price_data, method)
    IN IF n_assets = 0
       THEN [status |-> "raised", result |-> {}, log |-> <<>>,
             error |-> {Err("ZeroDivisionError", "float division by zero", "none")}]
       ELSE IF method \notin KnownMethods
       THEN [status |-> "raised", result |-> {}, log |-> <<>>,
             error |-> {Err("ValueError", "Unknown optimization method", "none")}]
       ELSE IF r.raised
       THEN [status |-> "raised", result |-> {},
             log |-> <<Call(problem, r)>>,
             error |-> {WrapSolverError(r.exc)}]
       ELSE [status |-> "returned",
             result |-> {OptimizeResult(rf, price_data, stats, r)},
             log |-> <<Call(problem, r)>>,
             error |-> {}]

\* --------------------------------------------- generate_efficient_frontier
\* np.min / np.max of a non-empty vector: NaN as soon as one entry is NaN
RECURSIVE FMin(_)
FMin(s) ==
    IF Len(s) = 1 THEN Head(s)
    ELSE LET rest == FMin(Tail(s))
         IN IF Head(s).nan \/ rest.nan THEN NaN
            ELSE IF Head(s).v <= rest.v THEN Head(s) ELSE rest

RECURSIVE FMax(_)
FMax(s) ==
    IF Len(s) = 1 THEN Head(s)
    ELSE LET rest == FMax(Tail(s))
         IN IF Head(s).nan \/ rest.nan THEN NaN
            ELSE IF Head(s).v >= rest.v THEN Head(s) ELSE rest

\* np.linspace(lo, hi, n)
linspace(lo, hi, n) ==
    [i \in 1..n |->
        IF n = 1 THEN lo
        ELSE FAdd(lo, FDiv(FMul(F(i - 1), FSub(hi, lo)), F(n - 1)))]

\* the minimize(...) call of one loop iteration
\* (variant: the constraint built with the grid's last target, whatever the
\* iteration)
FrontierProblemLastTarget(price_data, target_return) ==
    LET n_assets == Len(price_data.columns)
        stats == calculate_returns_and_covariance(price_data)
    IN [objective |-> VarianceObjective(stats.covariance_matrix),
        x0 |-> InitialWeights(n_assets),
        method |-> "SLSQP",
        bounds |-> WeightBounds(n_assets),
        constraints |-> <<SumConstraint,
                          TargetConstraint(stats.expected_returns,
                                           FMax(stats.expected_returns))>>,
        maxiter |-> MaxIter]
FrontierProblem(price_data, target_return) ==
    LET n_assets == Len(price_data.columns)
        stats == calculate_returns_and_covariance(price_data)
    IN [objective |-> VarianceObjective(stats.covariance_matrix),
        x0 |-> InitialWeights(n_assets),
        method |-> "SLSQP",
        bounds |-> WeightBounds(n_assets),
        constraints |-> <<SumConstraint, TargetConstraint(stats.expected_returns, target_return)>>,
        maxiter |-> MaxIter]

\* What one solve of the sweep can do, as far as the sweep can tell: result.x
\* is read only when result.success holds and the except clause treats every
\* exception alike, so of the iterates a solve can stop at without converging
\* one stands for all, and so does one exception.
SweepOutcomes(problem) ==
    {r \in minimize(problem) :
        \/ r.success
        \/ r.raised /\ r.exc = "LinAlgError"
        \/ ~r.raised /\ r.x = problem.x0}

\* The sweep's entry in the record of minimize(...) calls: a converged iterate
\* is recorded by the point it gives.
SweepCall(problem, r, point) ==
    [problem |-> problem, outcome |-> Outcome(r), message |-> r.message, exc |-> r.exc,
     point |-> IF r.success THEN <<point>> ELSE <<>>]

\* lines 205-216: the list after one solve that did not raise, and lines
\* 218-220: after one that did
\* (variant: the test of result.success left out)
CollectPointUnlessRaised(frontier_points, r, point) ==
    IF ~r.raised THEN Append(frontier_points, point) ELSE frontier_points
CollectPoint(frontier_points, r, point) ==
    IF r.raised THEN frontier_points
    ELSE IF r.success THEN Append(frontier_points, point)
    ELSE frontier_points

\* the for statement: after an iteration, however its solve ended, the loop
\* takes the next target of the grid
\* (variant: a target whose solve did not converge is tried again)
NextTargetRetry(k, r) == IF r.success THEN k + 1 ELSE k
NextTarget(k, r) == k + 1

\* the point appended for a converged solve
FrontierPoint(rf, price_data, x) ==
    LET stats == calculate_returns_and_covariance(price_data)
        perf == portfolio_performance(rf, x, stats.expected_returns, stats.covariance_matrix)
    IN [risk |-> perf.risk, return |-> perf.ret]

\* list.sort(key=lambda x: x["risk"]): for a list this short, the leading run
\* is found (and reversed when strictly descending), then every later item is
\* placed by binary insertion; the only comparison used is key < key.
KeyLt(p, q) == FLt(p.risk, q.risk)

RECURSIVE RunEnd(_, _, _)
RunEnd(s, i, descending) ==
    IF i > Len(s) THEN i - 1
    ELSE IF KeyLt(s[i], s[i - 1]) = descending THEN RunEnd(s, i + 1, descending)
    ELSE i - 1

Reverse(s) == [i \in 1..Len(s) |-> s[Len(s) + 1 - i]]

RECURSIVE InsertPos(_, _, _, _)
InsertPos(s, pivot, l, r) ==
    IF l >= r THEN l
    ELSE LET p == l + ((r - l) \div 2)
         IN IF KeyLt(pivot, s[p]) THEN InsertPos(s, pivot, l, p)
            ELSE InsertPos(s, pivot, p + 1, r)

RECURSIVE BinarySort(_, _)
BinarySort(s, start) ==
    IF start > Len(s) THEN s
    ELSE LET pos == InsertPos(s, s[start], 1, start)
             moved == SubSeq(s, 1, pos - 1) \o <<s[start]>> \o SubSeq(s, pos, start - 1)
                      \o SubSeq(s, start + 1, Len(s))
         IN BinarySort(moved, start + 1)

\* (variant: the list returned in the order of collection)
SortByRiskOmitted(points) == points
SortByRisk(points) ==
    IF Len(points) < 2 THEN points
    ELSE LET descending == KeyLt(points[2], points[1])
             run == RunEnd(points, 3, descending)
             head == IF descending THEN Reverse(SubSeq(points, 1, run))
                     ELSE SubSeq(points, 1, run)
         IN BinarySort(head \o SubSeq(points, run + 1, Len(points)), run + 1)

\* The loop from its k-th target on, as a whole: every pair of the record of
\* minimize(...) calls and the list of points it can end with.
RECURSIVE Sweep(_, _, _, _, _, _)
Sweep(rf, price_data, target_returns, k, log, frontier_points) ==
    IF k > Len(target_returns)
    THEN {[log |-> log, frontier_points |-> frontier_points]}
    ELSE LET problem == FrontierProblem(price_data, target_returns[k])
             steps == {[entry |-> SweepCall(problem, r, FrontierPoint(rf, price_data, r.x)),
                        points |-> CollectPoint(frontier_points, r,
                                                FrontierPoint(rf, price_data, r.x))] :
                       r \in SweepOutcomes(problem)}
         IN UNION {Sweep(rf, price_data, target_returns, k + 1, Append(log, st.entry),
                         st.points) : st \in steps}

\* generate_efficient_frontier(price_data, n_points) for a table with at
\* least one column, as its caller sees it: the record of minimize(...) calls
\* and the sorted list returned
generate_efficient_frontier(rf, price_data, n_points) ==
    LET stats == calculate_returns_and_covariance(price_data)
        target_returns == linspace(FMin(stats.expected_returns),
                                   FMax(stats.expected_returns), n_points)
    IN {[log |-> sw.log, points |-> SortByRisk(sw.frontier_points)] :
        sw \in Sweep(rf, price_data, target_returns, 1, <<>>, <<>>)}

\* ---------------------------------------- get_individual_asset_performance
get_individual_asset_performance(rf, price_data) ==
    LET stats == calculate_returns_and_covariance(price_data)
    IN [i \in 1..Len(price_data.columns) |->
          LET asset_risk == FSqrt(stats.covariance_matrix[i][i])
              asset_return == stats.expected_returns[i]
          IN [ticker |-> price_data.columns[i],
              risk |-> asset_risk,
              return |-> asset_return,
              sharpe |-> IF FGt(asset_risk, F(0))
                         THEN FDiv(FSub(asset_return, F(rf)), asset_risk)
                         ELSE F(0)]]

\* ------------------------------------- arguments of portfolio_performance
\* The vectors and matrices a caller can pass to portfolio_performance
\* directly: any weights, and any square matrix, also one that is no
\* covariance matrix (its quadratic form can be negative).
CovarianceShapes == {"zero", "identity", "indefinite", "negative"}

CovarianceInput(shape, n) ==
    [i \in 1..n |-> [j \in 1..n |->
        CASE shape = "zero" -> F(0)
          [] shape = "identity" -> IF i = j THEN F(4) ELSE F(0)
          [] shape = "indefinite" -> IF i = j THEN F(0) ELSE F(-4)
          [] shape = "negative" -> IF i = j THEN F(-4) ELSE F(0)]]

ReturnLevels == {0, 4}

PerformanceArguments ==
    UNION {[weights : [1..n -> 0..Unit],
            expected_returns : {[j \in 1..n |-> F(e)] : e \in ReturnLevels},
            covariance_matrix : {CovarianceInput(sh, n) : sh \in CovarianceShapes}] :
           n \in 1..MaxAssets}

\* ------------------------------------------------------- request handlers
\* PortfolioOptimizer() of api.py: the default risk_free_rate, 0.0
DefaultRiskFreeRate == 0

HTTPException(status_code, detail) == [status_code |-> status_code, detail |-> detail]

\* What the data service does for one request: too few of the tickers are
\* valid, the download fails (ValueError), or a cleaned table comes back.
DataServiceOutcomes ==
    {[kind |-> "few_valid", data |-> EmptyDataFrame],
     [kind |-> "fetch_error", data |-> EmptyDataFrame]}
    \cup {[kind |-> "data", data |-> pd] : pd \in PriceTables}

\* stock_data.empty: an axis of length 0
IsEmpty(df) == Len(df.columns) = 0 \/ Len(df.rows) = 0

\* the dependency get_stock_data: the table, or the HTTPException that leaves
\* its try statement.  The two HTTPException(422) raised inside the try are
\* no ValueError, so the handler for Exception takes them.
get_stock_data(dso) ==
    IF dso.kind = "fetch_error"
    THEN [ok |-> FALSE, data |-> EmptyDataFrame,
          exc |-> HTTPException(422, "Failed to fetch data for tickers")]
    ELSE IF dso.kind = "few_valid" \/ IsEmpty(dso.data)
    THEN [ok |-> FALSE, data |-> EmptyDataFrame,
          exc |-> HTTPException(500, "Internal server error while fetching data")]
    ELSE [ok |-> TRUE, data |-> dso.data, exc |-> HTTPException(200, "none")]

\* the except clauses of the /optimize handler, by the type of the exception
\* that left optimizer.optimize_portfolio
OptimizeHandlerError(err) ==
    IF err.type = "ValueError"
    THEN HTTPException(422, err.message)
    ELSE HTTPException(500, "Internal server error during optimization")

\* the /frontier handler after optimizer.generate_efficient_frontier returned:
\* the HTTPException(422) raised for an empty list is raised inside the try
\* statement and is no ValueError, so the handler for Exception takes it
FrontierHandlerResponse(rf, stock_data, frontier_points) ==
    IF frontier_points = <<>>
    THEN HTTPException(500, "Internal server error during frontier generation")
    ELSE [status_code |-> 200,
          detail |-> [points |-> frontier_points,
                      individual_assets |-> get_individual_asset_performance(rf, stock_data)]]

\* ------------------------------------------------------------------ state
VARIABLES
    risk_free_rate,   \* self.risk_free_rate of the optimizer instance
    op,               \* the call in progress or just ended ("idle": none)
    status,           \* "none", "running", "returned" or "raised"
    args,             \* the arguments of the call, as the caller passed them
    price_data,       \* the caller's price table, as it is after the call
    method,           \* the method argument
    n_points,         \* the n_points argument
    target_returns,   \* the sweep's grid
    k,                \* the sweep's position in the grid (1-based)
    frontier_points,  \* the sweep's list of points
    result,           \* the value returned ({} when none)
    error,            \* the exception raised ({} when none)
    minimize_log,     \* the minimize(...) calls made during the call
    http              \* the request's response or HTTPException ({} when none)

vars == <<risk_free_rate, op, status, args, price_data, method, n_points, target_returns, k,
          frontier_points, result, error, minimize_log, http>>

RiskFreeRates == {0, 2}

NoArgs == [none |-> TRUE]

Init ==
    /\ risk_free_rate \in RiskFreeRates
    /\ op = "idle"
    /\ status = "none"
    /\ args = NoArgs
    /\ price_data = EmptyDataFrame
    /\ method = "none"
    /\ n_points = 0
    /\ target_returns = <<>>
    /\ k = 0
    /\ frontier_points = <<>>
    /\ result = {}
    /\ error = {}
    /\ minimize_log = <<>>
    /\ http = {}

\* optimizer.optimize_portfolio(price_data, method)
OptimizePortfolio ==
    /\ op = "idle"
    /\ \E pd \in PriceTables, m \in Methods :
         \E r \in (IF OptimizeReachesSolver(pd, m)
                   THEN minimize(OptimizeProblem(risk_free_rate, pd, m)) ELSE {NotCalled}) :
            LET out == optimize_portfolio(risk_free_rate, pd, m, r)
            IN /\ op' = "optimize_portfolio"
               /\ args' = [price_data |-> pd, method |-> m]
               /\ price_data' = price_data_after(pd)
               /\ method' = m
               /\ status' = out.status
               /\ result' = out.result
               /\ error' = out.error
               /\ minimize_log' = out.log
    /\ UNCHANGED <<risk_free_rate, n_points, target_returns, k, frontier_points, http>>

\* optimizer.calculate_returns_and_covariance(price_data)
CalculateReturnsAndCovariance ==
    /\ op = "idle"
    /\ \E pd \in PriceTables :
         /\ op' = "calculate_returns_and_covariance"
         /\ args' = [price_data |-> pd]
         /\ price_data' = price_data_after(pd)
         /\ status' = "returned"
         /\ result' = {calculate_returns_and_covariance(pd)}
    /\ UNCHANGED <<risk_free_rate, method, n_points, target_returns, k, frontier_points,
                   error, minimize_log, http>>

\* optimizer.portfolio_performance(weights, expected_returns, covariance_matrix)
PortfolioPerformance ==
    /\ op = "idle"
    /\ \E a \in PerformanceArguments :
         /\ op' = "portfolio_performance"
         /\ args' = a
         /\ status' = "returned"
         /\ result' = {portfolio_performance(risk_free_rate, a.weights, a.expected_returns,
                                             a.covariance_matrix)}
    /\ UNCHANGED <<risk_free_rate, price_data, method, n_points, target_returns, k,
                   frontier_points, error, minimize_log, http>>

\* optimizer.get_individual_asset_performance(price_data)
GetIndividualAssetPerformance ==
    /\ op = "idle"
    /\ \E pd \in PriceTables :
         /\ op' = "get_individual_asset_performance"
         /\ args' = [price_data |-> pd]
         /\ price_data' = price_data_after(pd)
         /\ status' = "returned"
         /\ result' = {get_individual_asset_performance(risk_free_rate, pd)}
    /\ UNCHANGED <<risk_free_rate, method, n_points, target_returns, k, frontier_points,
                   error, minimize_log, http>>

\* POST /optimize: the dependency get_stock_data, then the handler
ApiOptimize ==
    /\ op = "idle"
    /\ risk_free_rate = DefaultRiskFreeRate
    /\ \E dso \in DataServiceOutcomes, m \in KnownMethods :
         LET dep == get_stock_data(dso)
         IN /\ op' = "POST /optimize"
            /\ args' = [request |-> dso, method |-> m]
            /\ method' = m
            /\ price_data' = IF dep.ok THEN price_data_after(dep.data) ELSE dso.data
            /\ IF ~dep.ok
               THEN /\ status' = "raised"
                    /\ http' = {dep.exc}
                    /\ result' = {}
                    /\ error' = {}
                    /\ minimize_log' = <<>>
               ELSE \E r \in minimize(OptimizeProblem(risk_free_rate, dep.data, m)) :
                      LET out == optimize_portfolio(risk_free_rate, dep.data, m, r)
                      IN /\ result' = out.result
                         /\ error' = out.error
                         /\ minimize_log' = out.log
                         /\ IF out.status = "raised"
                            THEN /\ status' = "raised"
                                 /\ http' = {OptimizeHandlerError(CHOOSE e \in out.error : TRUE)}
                            ELSE /\ status' = "returned"
                                 /\ http' = {[status_code |-> 200,
                                              detail |-> get_individual_asset_performance(
                                                             risk_free_rate, dep.data)]}
    /\ UNCHANGED <<risk_free_rate, n_points, target_returns, k, frontier_points>>

\* POST /frontier: the dependency get_stock_data, then the handler.  The
\* handler's n_points=30 is MaxPoints here.
ApiFrontier ==
    /\ op = "idle"
    /\ risk_free_rate = DefaultRiskFreeRate
    /\ \E dso \in DataServiceOutcomes :
         LET dep == get_stock_data(dso)
         IN /\ op' = "POST /frontier"
            /\ args' = [request |-> dso]
            /\ price_data' = IF dep.ok THEN price_data_after(dep.data) ELSE dso.data
            /\ error' = {}
            /\ IF ~dep.ok
               THEN /\ status' = "raised"
                    /\ http' = {dep.exc}
                    /\ result' = {}
                    /\ minimize_log' = <<>>
               ELSE \E out \in generate_efficient_frontier(risk_free_rate, dep.data, MaxPoints) :
                      LET response == FrontierHandlerResponse(risk_free_rate, dep.data,
                                                              out.points)
                      IN /\ result' = {out.points}
                         /\ minimize_log' = out.log
                         /\ http' = {response}
                         /\ status' = IF response.status_code = 200
                                       THEN "returned" ELSE "raised"
    /\ UNCHANGED <<risk_free_rate, method, n_points, target_returns, k, frontier_points>>

\* generate_efficient_frontier, lines 162-175 (and the return, when the grid
\* is empty)
FrontierStart ==
    /\ op = "idle"
    /\ \E pd \in PriceTables, n \in 0..MaxPoints :
         LET stats == calculate_returns_and_covariance(pd)
         IN /\ op' = "generate_efficient_frontier"
            /\ args' = [price_data |-> pd, n_points |-> n]
            /\ price_data' = price_data_after(pd)
            /\ n_points' = n
            /\ minimize_log' = <<>>
            /\ frontier_points' = <<>>
            /\ IF Len(pd.columns) = 0
               THEN /\ status' = "raised"
                    /\ error' = {Err("ValueError", "zero-size array to reduction operation", "none")}
                    /\ target_returns' = <<>>
                    /\ k' = 0
                    /\ result' = {}
               ELSE /\ target_returns' = linspace(FMin(stats.expected_returns),
                                                  FMax(stats.expected_returns), n)
                    /\ k' = 1
                    /\ error' = {}
                    /\ IF n = 0
                       THEN status' = "returned" /\ result' = {SortByRisk(<<>>)}
                       ELSE status' = "running" /\ result' = {}
    /\ UNCHANGED <<risk_free_rate, method, http>>

\* one iteration of the loop over target_returns (and, after the last one,
\* the sort and the return)
FrontierSolve ==
    /\ op = "generate_efficient_frontier"
    /\ status = "running"
    /\ LET problem == FrontierProblem(price_data, target_returns[k])
       IN \E r \in SweepOutcomes(problem) :
            LET point == FrontierPoint(risk_free_rate, price_data, r.x)
                points == CollectPoint(frontier_points, r, point)
                entry == SweepCall(problem, r, point)
            IN /\ minimize_log' = Append(minimize_log, entry)
               /\ k' = NextTarget(k, r)
               /\ IF k = Len(target_returns)
                  THEN /\ frontier_points' = SortByRisk(points)
                       /\ status' = "returned"
                       /\ result' = {SortByRisk(points)}
                  ELSE /\ frontier_points' = points
                       /\ UNCHANGED <<status, result>>
    /\ UNCHANGED <<risk_free_rate, op, args, price_data, method, n_points, target_returns,
                   error, http>>

\* the caller takes the outcome; the instance is ready for the next call
Return ==
    /\ op # "idle"
    /\ status \in {"returned", "raised"}
    /\ op' = "idle"
    /\ status' = "none"
    /\ args' = NoArgs
    /\ price_data' = EmptyDataFrame
    /\ method' = "none"
    /\ n_points' = 0
    /\ target_returns' = <<>>
    /\ k' = 0
    /\ frontier_points' = <<>>
    /\ result' = {}
    /\ error' = {}
    /\ minimize_log' = <<>>
    /\ http' = {}
    /\ UNCHANGED risk_free_rate

Next ==
    \/ CalculateReturnsAndCovariance
    \/ PortfolioPerformance
    \/ GetIndividualAssetPerformance
    \/ OptimizePortfolio
    \/ ApiOptimize
    \/ ApiFrontier
    \/ FrontierStart
    \/ FrontierSolve
    \/ Return

Spec == Init /\ [][Next]_vars

\* ------------------------------------------------------------ properties
UnknownMethodError == Err("ValueError", "Unknown optimization method", "none")

RECURSIVE SumDict(_)
SumDict(f) ==
    IF DOMAIN f = {} THEN 0
    ELSE LET key == CHOOSE t \in DOMAIN f : TRUE
         IN f[key] + SumDict([t \in DOMAIN f \ {key} |-> f[t]])

Successes(log) == {i \in 1..Len(log) : log[i].outcome = "success"}

C2_SingleAssetRejected ==
    (op = "optimize_portfolio" /\ Len(price_data.columns) = 1)
        => /\ status = "raised"
           /\ \A e \in error : e.type = "InsufficientDataError"
           /\ result = {}
           /\ minimize_log = <<>>

\* C3: the sequence returned by generate_efficient_frontier is ascending in
\* risk: risk[i] <= risk[i+1] for every adjacent pair.
C3_FrontierSorted ==
    (op = "generate_efficient_frontier" /\ status = "returned")
        => \A pts \in result :
              \A i \in 1..(Len(pts) - 1) : FLe(pts[i].risk, pts[i + 1].risk)

\* two converged solves, the second of lower risk than the first
C3_Witness ==
    /\ op = "generate_efficient_frontier"
    /\ status = "returned"
    /\ Len(minimize_log) = 2
    /\ Successes(minimize_log) = {1, 2}
    /\ FLt(minimize_log[2].point[1].risk, minimize_log[1].point[1].risk)
    /\ \A pts \in result : Len(pts) = 2

\* C4: a solve that does not converge or raises is skipped and the sweep goes
\* on: the call, once past its statistics, never raises; when it returns,
\* every target of the grid was solved for, in grid order, and the sequence
\* holds as many points as solves reported success, at most n_points.
C4_SweepNeverAborts ==
    op = "generate_efficient_frontier"
        => /\ status = "running" => Len(minimize_log) = k - 1 /\ k <= n_points
           /\ status = "raised" => minimize_log = <<>> /\ Len(price_data.columns) = 0
           /\ status = "returned" =>
                /\ Len(minimize_log) = n_points
                /\ \A i \in 1..n_points :
                      minimize_log[i].problem.constraints[2].target_return = target_returns[i]
                /\ \A pts \in result :
                      /\ Len(pts) = Cardinality(Successes(minimize_log))
                      /\ Len(pts) <= n_points

C4_Witness ==
    /\ op = "generate_efficient_frontier"
    /\ status = "returned"
    /\ n_points = 2
    /\ minimize_log[1].outcome = "raised"
    /\ minimize_log[2].outcome = "success"
    /\ \A pts \in result : Len(pts) = 1

\* C5: when every solve of a sweep fails (no convergence, or an exception),
\* generate_efficient_frontier returns the empty sequence and raises nothing.
C5_AllFailedGivesEmpty ==
    (/\ op = "generate_efficient_frontier"
     /\ status # "running"
     /\ minimize_log # <<>>
     /\ Successes(minimize_log) = {})
        => status = "returned" /\ result = {<<>>} /\ error = {}

C5_Witness ==
    /\ op = "generate_efficient_frontier"
    /\ status = "returned"
    /\ Len(minimize_log) = 2
    /\ minimize_log[1].outcome = "failed"
    /\ minimize_log[2].outcome = "raised"
    /\ result = {<<>>}

\* C6: when minimize ends without converging, optimize_portfolio raises
\* nothing: it returns the weights of the solver's last iterate with their
\* return, risk and Sharpe ratio, success false, and the solver's message.
C6_NonConvergenceReturned ==
    (/\ op = "optimize_portfolio"
     /\ minimize_log # <<>>
     /\ minimize_log[1].outcome = "failed")
        => /\ status = "returned"
           /\ error = {}
           /\ Cardinality(result) = 1
           /\ \A res \in result :
                 /\ res.success = FALSE
                 /\ res.message = minimize_log[1].message
                 /\ DOMAIN res.weights = {price_data.columns[i] : i \in 1..Len(price_data.columns)}
                 /\ \A i \in 1..Len(price_data.columns) :
                       res.weights[price_data.columns[i]] = minimize_log[1].x[i]
                 /\ DOMAIN res = {"weights", "exp_return", "exp_risk", "sharpe", "success", "message"}

C6_Witness ==
    /\ op = "optimize_portfolio"
    /\ status = "returned"
    /\ Len(price_data.columns) = 2
    /\ minimize_log # <<>>
    /\ minimize_log[1].outcome = "failed"
    /\ minimize_log[1].x = <<2, 2>>

\* C7: after a successful solve of optimize_portfolio the weights sum to 1
\* within the tolerance and each lies within the tolerance of [0, 1]; every
\* solve is set up with the bounds (0, 1) on each weight and the one equality
\* constraint sum(weights) = 1.
C7_WeightsFeasible ==
    op \in {"optimize_portfolio", "POST /optimize"}
        => /\ \A i \in 1..Len(minimize_log) :
                 /\ minimize_log[i].problem.bounds =
                       [j \in 1..Len(price_data.columns) |-> <<0, Unit>>]
                 /\ minimize_log[i].problem.constraints = <<SumConstraint>>
           /\ \A res \in result :
                 res.success =>
                    /\ Abs(SumDict(res.weights) - Unit) <= Acc
                    /\ \A t \in DOMAIN res.weights :
                          -Acc <= res.weights[t] /\ res.weights[t] <= Unit + Acc

C7_Witness ==
    /\ op = "optimize_portfolio"
    /\ method = "max_sharpe"
    /\ status = "returned"
    /\ \E res \in result :
          res.success /\ res.weights = [t \in {"AAPL", "MSFT"} |-> 1]

\* C8: when minimize raises, optimize_portfolio fails with the
\* optimization-failed error carrying the cause; it returns nothing and the
\* solver's own exception does not come out.
C8_SolverErrorWrapped ==
    (/\ op = "optimize_portfolio"
     /\ minimize_log # <<>>
     /\ minimize_log[1].outcome = "raised")
        => /\ status = "raised"
           /\ result = {}
           /\ error = {Err("ValueError", "Portfolio optimization failed", minimize_log[1].exc)}
           /\ minimize_log[1].exc \in SolverExceptions

C8_Witness ==
    /\ op = "optimize_portfolio"
    /\ status = "raised"
    /\ \E e \in error : e.message = "Portfolio optimization failed" /\ e.cause = "LinAlgError"

\* C9: an optimization-failed error reaching the /optimize handler is answered
\* with a server error (5xx), not with the client-input status 422.
C9_SolverErrorIsServerError ==
    (/\ op = "POST /optimize"
     /\ \E e \in error : e.message = "Portfolio optimization failed")
        => \A h \in http : h.status_code >= 500

\* C10: calculate_returns_and_covariance fails with the insufficient-data
\* error on a table with fewer than 2 rows or fewer than 2 asset columns, and
\* returns no statistics for it.
C10_EstimatorRejectsSmallTable ==
    (/\ op = "calculate_returns_and_covariance"
     /\ (Len(price_data.rows) < 2 \/ Len(price_data.columns) < 2))
        => status = "raised" /\ result = {}

\* C11: whenever the computed risk is 0 the reported Sharpe ratio is exactly 0,
\* and the call returns (no exception, no infinity): for portfolio_performance
\* with any weights, and for each asset of get_individual_asset_performance
\* whose variance is 0.
C11_ZeroRiskGuard ==
    /\ op = "portfolio_performance" =>
          /\ status = "returned"
          /\ \A p \in result : p.risk = F(0) => p.sharpe = F(0)
    /\ op = "get_individual_asset_performance" =>
          /\ status = "returned"
          /\ \A assets \in result :
                \A i \in 1..Len(assets) :
                   LET variance == calculate_returns_and_covariance(args.price_data)
                                      .covariance_matrix[i][i]
                   IN /\ variance = F(0) => assets[i].risk = F(0)
                      /\ assets[i].risk = F(0) => assets[i].sharpe = F(0)

\* a portfolio of zero risk whose return differs from the risk-free rate
C11_Witness ==
    /\ op = "portfolio_performance"
    /\ \E p \in result :
          p.risk = F(0) /\ p.ret # F(risk_free_rate) /\ p.sharpe = F(0)

\* C12: portfolio_performance clamps the variance before the square root:
\* for every weights/covariance input, also one whose quadratic form is
\* negative, the returned risk is a number >= 0, sqrt(max(variance, 0)).
C12_RiskClamped ==
    op = "portfolio_performance" =>
        \A p \in result :
           LET variance == QuadForm(args.weights, args.covariance_matrix)
           IN /\ ~p.risk.nan
              /\ p.risk.v >= 0
              /\ p.risk = FSqrt(IF FLt(variance, F(0)) THEN F(0) ELSE variance)

\* C13: the weights mapping returned by optimize_portfolio has exactly the
\* price table's column identifiers as its keys, one entry per asset, and the
\* value under the i-th column's identifier is the i-th component of the
\* solver's weight vector.
C13_WeightsCoverTickers ==
    (op \in {"optimize_portfolio", "POST /optimize"} /\ result # {})
        => \A res \in result :
              LET tickers == price_data.columns
              IN /\ DOMAIN res.weights = {tickers[i] : i \in 1..Len(tickers)}
                 /\ Cardinality(DOMAIN res.weights) = Len(tickers)
                 /\ Len(minimize_log) = 1
                 /\ Len(minimize_log[1].x) = Len(tickers)
                 /\ \A i \in 1..Len(tickers) :
                       res.weights[tickers[i]] = minimize_log[1].x[i]

\* a converged solve that puts everything into the second asset
C13_Witness ==
    /\ op = "optimize_portfolio"
    /\ status = "returned"
    /\ price_data.columns = <<"AAPL", "MSFT">>
    /\ minimize_log[1].x = <<0, Unit>>
    /\ \E res \in result :
          res.success /\ res.weights["AAPL"] = 0 /\ res.weights["MSFT"] = Unit

\* the calls that take a price table
TableCalls ==
    {"calculate_returns_and_covariance", "optimize_portfolio",
     "generate_efficient_frontier", "get_individual_asset_performance"}

\* the caller's table after a call is the table it passed
TableUnchanged == op \in TableCalls => price_data = args.price_data

\* what a call without a solve returns is fixed by its arguments and the
\* risk-free rate
OutcomeFromArguments ==
    /\ op = "calculate_returns_and_covariance" =>
          result = {calculate_returns_and_covariance(args.price_data)}
    /\ op = "portfolio_performance" =>
          result = {portfolio_performance(risk_free_rate, args.weights,
                                          args.expected_returns, args.covariance_matrix)}
    /\ op = "get_individual_asset_performance" =>
          result = {get_individual_asset_performance(risk_free_rate, args.price_data)}

\* between two calls nothing but the risk-free rate is held
NothingCarried ==
    op = "idle" =>
        /\ status = "none" /\ args = NoArgs /\ price_data = EmptyDataFrame
        /\ method = "none" /\ n_points = 0 /\ target_returns = <<>> /\ k = 0
        /\ frontier_points = <<>> /\ result = {} /\ error = {}
        /\ minimize_log = <<>> /\ http = {}

\* C14: across any sequence of calls on one optimizer instance the risk-free
\* rate keeps the value given at construction, the price table passed to a
\* call is left unchanged, and no other state is carried from one call to
\* the next.
C14_Stateless ==
    /\ [][risk_free_rate' = risk_free_rate]_vars
    /\ [](TableUnchanged /\ OutcomeFromArguments /\ NothingCarried)

\* a sweep over a three-row table has returned, on an instance constructed
\* with a risk-free rate other than the default
C14_Witness ==
    /\ op = "generate_efficient_frontier"
    /\ status = "returned"
    /\ risk_free_rate = 2
    /\ Len(args.price_data.rows) = 3
    /\ Len(minimize_log) = 2
    /\ price_data = args.price_data

\* C15: no solve is retried: one optimize_portfolio call makes at most one
\* minimize call, and one generate_efficient_frontier call makes at most one
\* per target of the grid (the i-th call is the one for the i-th target),
\* whether the solve converged, failed to converge or raised.
C15_NoRetry ==
    /\ op \in {"optimize_portfolio", "POST /optimize"} => Len(minimize_log) <= 1
    /\ op = "generate_efficient_frontier" =>
          /\ Len(minimize_log) <= Len(target_returns)
          /\ \A i \in 1..Len(minimize_log) :
                minimize_log[i].problem.constraints[2].target_return = target_returns[i]
          /\ status = "returned" => Len(minimize_log) = Len(target_returns)

\* a sweep over two different targets whose first solve raised and whose
\* second did not converge
C15_Witness ==
    /\ op = "generate_efficient_frontier"
    /\ status = "returned"
    /\ Len(target_returns) = 2
    /\ target_returns[1] # target_returns[2]
    /\ Len(minimize_log) = 2
    /\ minimize_log[1].outcome = "raised"
    /\ minimize_log[2].outcome = "failed"

\* the request met a client-input condition in the dependency get_stock_data:
\* fewer than 2 valid tickers, or an empty table of stock data
ClientInputCondition ==
    \/ args.request.kind = "few_valid"
    \/ args.request.kind = "data" /\ IsEmpty(args.request.data)

\* C16: a client-input condition detected inside a try block is answered with
\* status 422: fewer than 2 valid tickers or an empty stock-data table in
\* get_stock_data, and an empty frontier in the /frontier handler, never with
\* the generic 500 response.
C16_ClientInputIs422 ==
    /\ (op \in {"POST /optimize", "POST /frontier"} /\ ClientInputCondition)
          => http # {} /\ \A h \in http : h.status_code = 422
    /\ (op = "POST /frontier" /\ result = {<<>>})
          => http # {} /\ \A h \in http : h.status_code = 422

\* the points of the converged solves of a record of calls, in call order
RECURSIVE PointsOf(_)
PointsOf(log) ==
    IF log = <<>> THEN <<>>
    ELSE Head(log).point \o PointsOf(Tail(log))

\* the point is the one some converged solve of this problem gives
PointOfConvergedSolve(stats, problem, point) ==
    \E x \in Iterates(problem) :
        LET perf == portfolio_performance(risk_free_rate, x, stats.expected_returns,
                                          stats.covariance_matrix)
        IN /\ point = [risk |-> perf.risk, return |-> perf.ret]
           /\ Feasible(problem, x)

\* C17: in generate_efficient_frontier the k-th solve is constrained by the
\* k-th target of the grid and by no other, the targets are solved one at a
\* time in grid order, and the point appended for a target comes from the
\* weights that same solve returned (so its return meets that target).
C17_TargetPerSolve ==
    op = "generate_efficient_frontier" =>
        LET stats == calculate_returns_and_covariance(price_data)
        IN /\ status = "running" => Len(minimize_log) = k - 1
           /\ \A i \in 1..Len(minimize_log) :
                 LET call == minimize_log[i]
                 IN /\ call.problem.objective = VarianceObjective(stats.covariance_matrix)
                    /\ Len(call.problem.constraints) = 2
                    /\ call.problem.constraints[2] =
                          TargetConstraint(stats.expected_returns, target_returns[i])
                    /\ call.outcome = "success" =>
                          /\ Len(call.point) = 1
                          /\ Abs(call.point[1].return.v - target_returns[i].v) <= Acc
                          /\ PointOfConvergedSolve(stats, call.problem, call.point[1])
                    /\ call.outcome # "success" => call.point = <<>>
           /\ status = "running" => frontier_points = PointsOf(minimize_log)
           /\ status = "returned" => result = {SortByRisk(PointsOf(minimize_log))}

\* two converged solves for two different targets, each point at its own
\* target
C17_Witness ==
    /\ op = "generate_efficient_frontier"
    /\ status = "returned"
    /\ Len(minimize_log) = 2
    /\ target_returns[1] # target_returns[2]
    /\ Successes(minimize_log) = {1, 2}
    /\ minimize_log[1].point[1].return = target_returns[1]
    /\ minimize_log[2].point[1].return = target_returns[2]

====
